---------------------------- MODULE Spec2Model ----------------------------
(***************************************************************************)
(* A model of eruv_alerts.py: the batch job that reads the subscriber,     *)
(* rabbi and status sheets, asks hebcal.com and openweathermap.org about   *)
(* every city and sends one SMS per matching subscriber through Twilio.    *)
(*                                                                         *)
(* Text.  A Python str is modelled as a sequence of pieces, each piece a   *)
(* TLA+ string; the text it stands for is the concatenation of the pieces  *)
(* and its length is the sum of their lengths.  Substring tests and        *)
(* replacements ('Candle' in title, ' (50 min)' in message, strip, split)  *)
(* are decided on piece boundaries, so every text of the model is cut so   *)
(* that the substrings the program looks for are pieces of their own.  A   *)
(* clock time is cut into single characters, and army_to_meridian works on *)
(* the characters.                                                         *)
(***************************************************************************)
EXTENDS Integers, Sequences, FiniteSets, TLC

VARIABLES
    \* ---- the run of the script (lines 152-455)
    arguments,          \* parser.parse_args()
    all_numbers,        \* subscriber sheet, column 2
    all_user_cities,    \* subscriber sheet, column 3
    whatsapp_list,      \* subscriber sheet, column 4
    all_rabbi_cities,   \* rabbi sheet, column 3
    all_rabbi_zipcodes, \* rabbi sheet, column 4
    all_cities,         \* status sheet, column 1
    city_statuses,      \* status sheet, column 2
    hebcal,             \* what hebcal.com answers this week, per zip code
    openweathermap,     \* what openweathermap.org answers today, per zip code
    pc,                 \* where the script is
    raised,             \* the exception that ended the script ("" if none)
    city_pos,           \* position of the for-loop over all_cities (0: not begun)
    city_index,         \* the script's own counter into city_statuses (0-based)
    zipcode,
    response,           \* hebcal answer of the current city ('' if none)
    weather_response,   \* openweathermap answer of the current city
    candle_lighting, havdalah, parsha, holiday, prequel, sequel,
    user_index,         \* 0-based, as in the script
    item_pos,           \* position of the inner for-loop over the user's cities
    population,
    message,            \* the global 'message'; Unbound until first assigned
    twilio_message,     \* the last client.messages.create call (to, body)
    sink,               \* who client.messages.create was called for, in order
    provider_calls,     \* the urlopen calls made, in order
    reports,            \* the per-city "N users notified" lines printed
    skipped,            \* positions of the cities the gating skipped
    \* ---- army_to_meridian on its own
    time_case, input_time, time_out,
    \* ---- extract_values on its own
    obj, key, results

sheetVars == << all_numbers, all_user_cities, whatsapp_list, all_rabbi_cities,
                all_rabbi_zipcodes, all_cities, city_statuses >>
worldVars == << arguments, sheetVars, hebcal, openweathermap >>
cityVars == << zipcode, response, weather_response, candle_lighting, havdalah,
               parsha, holiday, prequel, sequel >>
loopVars == << city_pos, city_index, user_index, item_pos, population >>
outVars == << message, twilio_message, sink, provider_calls, reports, skipped >>
runVars == << worldVars, pc, raised, cityVars, loopVars, outVars >>
timeVars == << time_case, input_time, time_out >>
treeVars == << obj, key, results >>
vars == << runVars, timeVars, treeVars >>

-----------------------------------------------------------------------------
(* Text helpers                                                            *)

RECURSIVE TLen(_)
TLen(t) == IF t = <<>> THEN 0 ELSE Len(Head(t)) + TLen(Tail(t))

RECURSIVE Join(_)
Join(list) == IF list = <<>> THEN <<>> ELSE Head(list) \o Join(Tail(list))

Contains(t, piece) == \E i \in 1..Len(t) : t[i] = piece

RECURSIVE Without(_, _)
Without(t, piece) ==
    IF t = <<>> THEN <<>>
    ELSE IF Head(t) = piece THEN Without(Tail(t), piece)
    ELSE <<Head(t)>> \o Without(Tail(t), piece)

RECURSIVE LStrip(_)
LStrip(t) == IF t # <<>> /\ Head(t) = " " THEN LStrip(Tail(t)) ELSE t

RECURSIVE RStrip(_)
RStrip(t) ==
    IF t # <<>> /\ t[Len(t)] = " " THEN RStrip(SubSeq(t, 1, Len(t) - 1)) ELSE t

Strip(t) == RStrip(LStrip(t))

LowerChar(c) ==
    CASE c = "A" -> "a" [] c = "P" -> "p" [] c = "M" -> "m" [] OTHER -> c

Lower(t) == [i \in 1..Len(t) |-> LowerChar(t[i])]

HasPair(t, a, b) == \E i \in 1..(Len(t) - 1) : t[i] = a /\ t[i + 1] = b

Count(t, c) == Cardinality({i \in 1..Len(t) : t[i] = c})

RECURSIVE Split(_, _)
Split(t, c) ==
    IF ~Contains(t, c) THEN <<t>>
    ELSE LET i == CHOOSE j \in 1..Len(t) :
                      t[j] = c /\ \A m \in 1..(j - 1) : t[m] # c
         IN  <<SubSeq(t, 1, i - 1)>> \o Split(SubSeq(t, i + 1, Len(t)), c)

Digits == <<"0", "1", "2", "3", "4", "5", "6", "7", "8", "9">>

DigitValue(c) == (CHOOSE d \in 1..10 : Digits[d] = c) - 1

RECURSIVE IntOf(_)
IntOf(t) == IF t = <<>> THEN 0
          ELSE 10 * IntOf(SubSeq(t, 1, Len(t) - 1)) + DigitValue(t[Len(t)])

RECURSIVE Str(_)
Str(n) == IF n < 10 THEN <<Digits[n + 1]>>
          ELSE Str(n \div 10) \o <<Digits[(n % 10) + 1]>>

RECURSIVE ZFill(_, _)
ZFill(t, width) == IF Len(t) >= width THEN t ELSE ZFill(<<"0">> \o t, width)

-----------------------------------------------------------------------------
(* army_to_meridian (lines 62-80)                                          *)

army_to_meridian_no_noon(t) ==
    IF HasPair(Lower(t), "a", "m") \/ HasPair(Lower(t), "p", "m") THEN t
    ELSE LET colon_count == Count(t, ":")
             time_split == Split(t, ":")
             hours0 == IntOf(time_split[1])
             minutes == IntOf(time_split[2])
             seconds == IF colon_count = 2 THEN IntOf(time_split[3]) ELSE 0
             meridian == IF hours0 >= 12 THEN <<" ", "P", "M">>
                                         ELSE <<" ", "A", "M">>
             hours == IF hours0 >= 12 THEN hours0 - 12 ELSE hours0
         IN  Str(hours) \o <<":">> \o ZFill(Str(minutes), 2)
             \o (IF seconds # 0 THEN <<":">> \o ZFill(Str(seconds), 2) ELSE <<>>)
             \o meridian

army_to_meridian(t) ==
    IF HasPair(Lower(t), "a", "m") \/ HasPair(Lower(t), "p", "m") THEN t
    ELSE LET colon_count == Count(t, ":")
             time_split == Split(t, ":")
             hours0 == IntOf(time_split[1])
             minutes == IntOf(time_split[2])
             seconds == IF colon_count = 2 THEN IntOf(time_split[3]) ELSE 0
             meridian == IF hours0 >= 12 THEN <<" ", "P", "M">>
                                         ELSE <<" ", "A", "M">>
             hours1 == IF hours0 >= 12 THEN hours0 - 12 ELSE hours0
             hours == IF hours1 = 0 THEN 12 ELSE hours1
         IN  Str(hours) \o <<":">> \o ZFill(Str(minutes), 2)
             \o (IF seconds # 0 THEN <<":">> \o ZFill(Str(seconds), 2) ELSE <<>>)
             \o meridian

-----------------------------------------------------------------------------
(* extract_values (lines 23-42)                                            *)
(* A JSON value is a leaf, a list of values, or a dict: a sequence of      *)
(* entries [k, v] with distinct keys, in document order.                   *)

Leaf(v) == [kind |-> "leaf", val |-> v]
List(s) == [kind |-> "list", items |-> s]
Dict(s) == [kind |-> "dict", items |-> s]
Entry(k, v) == [k |-> k, v |-> v]
IsContainer(o) == o.kind \in {"dict", "list"}

RECURSIVE extract_key_first(_, _)
extract_key_first(o, k) ==
    LET RECURSIVE Over(_)
        Over(s) ==
            IF s = <<>> THEN <<>>
            ELSE (IF o.kind = "dict"
                  THEN (IF Head(s).k = k
                        THEN (IF IsContainer(Head(s).v) THEN <<>>
                              ELSE <<Head(s).v.val>>)
                        ELSE IF IsContainer(Head(s).v)
                             THEN extract_key_first(Head(s).v, k)
                             ELSE <<>>)
                  ELSE extract_key_first(Head(s), k))
                 \o Over(Tail(s))
    IN  IF IsContainer(o) THEN Over(o.items) ELSE <<>>

RECURSIVE extract(_, _)
extract(o, k) ==
    LET RECURSIVE Over(_)
        Over(s) ==
            IF s = <<>> THEN <<>>
            ELSE (IF o.kind = "dict"
                  THEN (IF IsContainer(Head(s).v) THEN extract(Head(s).v, k)
                        ELSE IF Head(s).k = k THEN <<Head(s).v.val>>
                        ELSE <<>>)
                  ELSE extract(Head(s), k))
                 \o Over(Tail(s))
    IN  IF IsContainer(o) THEN Over(o.items) ELSE <<>>

extract_values(o, k) == extract(o, k)

-----------------------------------------------------------------------------
(* shorten_message (lines 45-60) and the message assembly (lines 406-427)  *)

SmsLimit == 160

\* A shortener that enforces the limit, cutting from the end until the
\* message fits: what shorten_message is not.
RECURSIVE shorten_message_cut(_)
shorten_message_cut(m) ==
    IF TLen(m) <= SmsLimit THEN m
    ELSE IF Contains(m, " (50 min)")
         THEN shorten_message_cut(Without(m, " (50 min)"))
    ELSE shorten_message_cut(SubSeq(m, 1, Len(m) - 1))

\* The script prints a warning and returns the message as it is when the
\* message is still too long and holds no ' (50 min)'.
RECURSIVE shorten_message(_)
shorten_message(m) ==
    IF TLen(m) <= SmsLimit THEN m
    ELSE IF Contains(m, " (50 min)")
         THEN shorten_message(Without(m, " (50 min)"))
    ELSE m

greetings == {"a great", "a wonderful", "an amazing", "a good"}

DonateClause == <<" Please visit bit.ly/nmberuv to cover the costs.">>

\* lines 407-408: the generated message of a city, before any shortening.
GeneratedMessage(p, pre, city, status, seq, candle, hav, hol, greeting) ==
    p \o pre \o <<city>> \o <<" Eruv is ">> \o <<status>> \o seq
      \o <<".", " ">> \o candle \o hav
      \o (IF seq = <<>>
          THEN <<"Have ", greeting, " Shabbos">> \o hol \o <<"!">>
          ELSE <<>>)

\* lines 413-423 and 209-217: override, donation clause, appended clause.
Override(args, m) ==
    IF args.custom_message # <<>> THEN Join(args.custom_message) ELSE m

WithDonate(args, m) == IF args.donate THEN m \o DonateClause ELSE m

WithAppend(args, m) ==
    IF args.append # <<>> THEN m \o <<" ">> \o Strip(Join(args.append)) ELSE m

\* lines 410-423, in the script's order: shorten and strip first, then
\* override, donate and append.
FinalMessage(args, generated) ==
    WithAppend(args,
        WithDonate(args,
            Override(args, Strip(shorten_message(generated)))))

\* lines 426-427 and 220-221
SpecialCharacters == {"-", " ", "(", ")", ".", "_"}

clean_number(number) ==
    <<"+1">> \o SelectSeq(number, LAMBDA c : c \notin SpecialCharacters)

-----------------------------------------------------------------------------
(* The city gating (lines 259-280) and the zip lookup (lines 282-294)      *)

\* str.lower() on the names and channel kinds that occur in the sheets and
\* on the command line.
LowerName(s) ==
    CASE s \in {"Example City", "EXAMPLE CITY", "example city"} -> "example city"
      [] s \in {"North Miami Beach", "NORTH MIAMI BEACH", "north miami beach"}
            -> "north miami beach"
      [] s \in {"Boca Raton", "boca raton", "BOCA RATON"} -> "boca raton"
      [] s \in {"WhatsApp", "whatsapp", "WHATSAPP"} -> "whatsapp"
      [] OTHER -> s

LowerAll(list) == {LowerName(list[i]) : i \in 1..Len(list)}

Blacklisted_exact(args, city) ==
    /\ args.blacklist # <<>>
    /\ city \in {args.blacklist[i] : i \in 1..Len(args.blacklist)}

Blacklisted(args, city) ==
    /\ args.blacklist # <<>>
    /\ LowerName(city) \in LowerAll(args.blacklist)

NotWhitelisted(args, city) ==
    /\ args.whitelist # <<>>
    /\ LowerName(city) \notin LowerAll(args.whitelist)

IntZip(n) == [type |-> "int", int |-> n]
StrZip(s) == [type |-> "str", str |-> s]

\* lines 283-289: the first rabbi row of the city decides; 0 when none.
LookupZip(rabbi_cities, rabbi_zipcodes, city) ==
    LET hits == {i \in 1..Len(rabbi_cities) : rabbi_cities[i] = city}
    IN  IF hits = {} THEN IntZip(0)
        ELSE StrZip(rabbi_zipcodes[CHOOSE i \in hits : \A j \in hits : i <= j])

\* line 292: zipcode == 0 (a str never equals 0, not even the empty one)
InvalidZip(z) == z.type = "int" /\ z.int = 0

ZipText(z) == IF z.type = "int" THEN "0" ELSE z.str

-----------------------------------------------------------------------------
(* The liturgical clauses (lines 310-358) and the weather clauses          *)
(* (lines 381-390)                                                         *)

EmptyStr == Leaf(<<>>)

TitlesWith(resp, word) ==
    SelectSeq(extract_values(resp, "title"), LAMBDA t : Contains(t, word))

\* str.rsplit(' ', 1): <<before the last ' ', after it>>
RSplit1(t) ==
    LET i == CHOOSE j \in 1..Len(t) :
                 t[j] = " " /\ \A m \in (j + 1)..Len(t) : t[m] # " "
    IN  <<SubSeq(t, 1, i - 1), SubSeq(t, i + 1, Len(t))>>

WithMeridian(title) ==
    RSplit1(title)[1] \o <<" ">> \o army_to_meridian(RSplit1(title)[2])

\* line 316: [...][0] raises IndexError when no title holds 'Candle'.
CandleRaises(resp) == resp # EmptyStr /\ TitlesWith(resp, "Candle") = <<>>

CandleClause(args, resp) ==
    IF resp = EmptyStr \/ TitlesWith(resp, "Candle") = <<>> THEN <<>>
    ELSE IF args.no_candlelighting THEN <<>>
    ELSE WithMeridian(TitlesWith(resp, "Candle")[1]) \o <<".", " ">>

HavdalahClause(args, resp) ==
    IF ~args.no_havdalah /\ Len(TitlesWith(resp, "Havdalah")) > 0
    THEN WithMeridian(TitlesWith(resp, "Havdalah")[1]) \o <<".", " ">>
    ELSE <<>>

ParshaClause(resp) ==
    IF TitlesWith(resp, "Parsha") # <<>>
    THEN TitlesWith(resp, "Parsha")[1] \o <<".">>
    ELSE <<"Chag Somayach!">>

HolidayClause(resp) ==
    IF TitlesWith(resp, "Parsha") # <<>> THEN <<>> ELSE <<" and Yom Tov">>

\* line 385
WeatherReported(args, wresp) ==
    \/ SelectSeq(extract_values(wresp, "description"),
                 LAMBDA d : Contains(d, "thunderstorm") \/ Contains(d, "tornado"))
          # <<>>
    \/ (args.weather /\ ~args.no_weather)

Prequel(args, wresp) ==
    IF WeatherReported(args, wresp) THEN <<" As of now, the ">> ELSE <<" The ">>

Sequel(args, wresp) ==
    IF WeatherReported(args, wresp)
    THEN <<". If winds exceed 35 mph, consider the Eruv down">>
    ELSE <<>>

\* lines 395-404: the cities a subscriber names, each stripped.
CityItems(city_found) ==
    [i \in 1..Len(Split(city_found, ",")) |-> Strip(Split(city_found, ",")[i])]

-----------------------------------------------------------------------------
(* The script, step by step                                                *)

Unbound == [bound |-> FALSE, text |-> <<>>]
Bound(t) == [bound |-> TRUE, text |-> t]
Created(to, body) == [bound |-> TRUE, text |-> body, to |-> to]

\* One call of client.messages.create (lines 225-226, 435-436); city and
\* user are the 1-based positions in the status and subscriber sheets
\* (0 and 0 on the single-phone path).
Delivery(to, city, user) == [to |-> to, city |-> city, user |-> user]

\* lines 434 and 222: nothing is sent in test mode.
Sends_always(args) == TRUE

Sends(args) == ~args.test

\* lines 208-228: a single SMS to --phone, then quit().
SendSinglePhone ==
    /\ pc = "start"
    /\ arguments.phone # <<>>
    /\ LET body == WithAppend(arguments,
                       WithDonate(arguments, Join(arguments.custom_message)))
           to == clean_number(Join(arguments.phone))
       IN  /\ message' = Bound(body)
           /\ IF Sends(arguments)
              THEN /\ sink' = Append(sink, Delivery(to, 0, 0))
                   /\ twilio_message' = Created(to, body)
              ELSE UNCHANGED << sink, twilio_message >>
    /\ pc' = "quit"
    /\ UNCHANGED << worldVars, raised, cityVars, loopVars, provider_calls,
                    reports, skipped, timeVars, treeVars >>

\* lines 249-252: print the cities, then quit().
ListAvailableCities ==
    /\ pc = "start"
    /\ arguments.phone = <<>>
    /\ arguments.available_cities
    /\ pc' = "quit"
    /\ UNCHANGED << worldVars, raised, cityVars, loopVars, outVars, timeVars,
                    treeVars >>

\* lines 254-257
StartCityLoop ==
    /\ pc = "start"
    /\ arguments.phone = <<>>
    /\ ~arguments.available_cities
    /\ city_index' = 0
    /\ city_pos' = 0
    /\ pc' = "loop"
    /\ UNCHANGED << worldVars, raised, cityVars, user_index, item_pos,
                    population, outVars, timeVars, treeVars >>

AtNextCity == pc = "loop" /\ city_pos < Len(all_cities)
NextCity == all_cities[city_pos + 1]

\* A skip: count the city (lines 263, 273, 279) and continue.
SkipTo ==
    /\ city_pos' = city_pos + 1
    /\ city_index' = city_index + 1
    /\ skipped' = skipped \cup {city_pos + 1}
    /\ UNCHANGED << worldVars, pc, raised, cityVars, user_index, item_pos, population,
                    message, twilio_message, sink, provider_calls, reports,
                    timeVars, treeVars >>

\* lines 259-264
SkipBlacklisted ==
    /\ AtNextCity
    /\ Blacklisted(arguments, NextCity)
    /\ SkipTo

\* lines 266-274
SkipNotWhitelisted ==
    /\ AtNextCity
    /\ ~Blacklisted(arguments, NextCity)
    /\ NotWhitelisted(arguments, NextCity)
    /\ SkipTo

\* lines 276-280
SkipPending ==
    /\ AtNextCity
    /\ ~Blacklisted(arguments, NextCity)
    /\ ~NotWhitelisted(arguments, NextCity)
    /\ city_statuses[city_index + 1] = "Pending"
    /\ SkipTo

PassesGating ==
    /\ AtNextCity
    /\ ~Blacklisted(arguments, NextCity)
    /\ ~NotWhitelisted(arguments, NextCity)
    /\ city_statuses[city_index + 1] # "Pending"

\* lines 282-294, zipcode == 0: print and quit().
AbortInvalidZip ==
    /\ PassesGating
    /\ InvalidZip(LookupZip(all_rabbi_cities, all_rabbi_zipcodes, NextCity))
    /\ zipcode' = LookupZip(all_rabbi_cities, all_rabbi_zipcodes, NextCity)
    /\ city_pos' = city_pos + 1
    /\ pc' = "quit"
    /\ UNCHANGED << worldVars, raised, response, weather_response, candle_lighting,
                    havdalah, parsha, holiday, prequel, sequel, city_index,
                    user_index, item_pos, population, outVars, timeVars,
                    treeVars >>

\* lines 282-299, zipcode != 0: go on to hebcal.
ResolveZip ==
    /\ PassesGating
    /\ ~InvalidZip(LookupZip(all_rabbi_cities, all_rabbi_zipcodes, NextCity))
    /\ zipcode' = LookupZip(all_rabbi_cities, all_rabbi_zipcodes, NextCity)
    /\ city_pos' = city_pos + 1
    /\ pc' = "hebcal"
    /\ UNCHANGED << worldVars, raised, response, weather_response, candle_lighting,
                    havdalah, parsha, holiday, prequel, sequel, city_index,
                    user_index, item_pos, population, outVars, timeVars,
                    treeVars >>

HttpError == [kind |-> "error"]

Call(provider) == [provider |-> provider, city |-> city_pos, zip |-> ZipText(zipcode)]

\* lines 301-358: the hebcal call unless skipped, then the candle-lighting,
\* Havdalah and Parsha clauses.  urlopen may raise, and so does line 316
\* when no title holds 'Candle'.
FetchLiturgical ==
    /\ pc = "hebcal"
    /\ LET skip == (arguments.no_candlelighting /\ arguments.no_havdalah)
                   \/ arguments.custom_message # <<>>
           answer == IF skip THEN EmptyStr ELSE hebcal[ZipText(zipcode)]
       IN  /\ provider_calls' = IF skip THEN provider_calls
                                ELSE Append(provider_calls, Call("hebcal"))
           /\ IF answer = HttpError
              THEN /\ pc' = "crash" /\ raised' = "HTTPError"
                   /\ response' = EmptyStr
                   /\ UNCHANGED << candle_lighting, havdalah, parsha, holiday >>
              ELSE IF CandleRaises(answer)
              THEN /\ pc' = "crash" /\ raised' = "IndexError"
                   /\ response' = answer
                   /\ UNCHANGED << candle_lighting, havdalah, parsha, holiday >>
              ELSE /\ pc' = "weather" /\ raised' = raised
                   /\ response' = answer
                   /\ candle_lighting' = CandleClause(arguments, answer)
                   /\ havdalah' = HavdalahClause(arguments, answer)
                   /\ parsha' = ParshaClause(answer)
                   /\ holiday' = HolidayClause(answer)
    /\ UNCHANGED << worldVars, zipcode, weather_response, prequel, sequel,
                    loopVars, message, twilio_message, sink, reports, skipped,
                    timeVars, treeVars >>

\* lines 360-394: the weather call unless skipped, prequel and sequel, and
\* the counters of the subscriber loop.
FetchWeather ==
    /\ pc = "weather"
    /\ LET skip == arguments.no_weather \/ arguments.custom_message # <<>>
           answer == IF skip THEN EmptyStr ELSE openweathermap[ZipText(zipcode)]
       IN  /\ provider_calls' = IF skip THEN provider_calls
                                ELSE Append(provider_calls, Call("openweathermap"))
           /\ IF answer = HttpError
              THEN /\ pc' = "crash" /\ raised' = "HTTPError"
                   /\ weather_response' = EmptyStr
                   /\ UNCHANGED << prequel, sequel, user_index, item_pos,
                                   population >>
              ELSE /\ pc' = "users" /\ raised' = raised
                   /\ weather_response' = answer
                   /\ prequel' = Prequel(arguments, answer)
                   /\ sequel' = Sequel(arguments, answer)
                   /\ user_index' = 0
                   /\ item_pos' = 1
                   /\ population' = 0
    /\ UNCHANGED << worldVars, zipcode, response, candle_lighting, havdalah,
                    parsha, holiday, city_pos, city_index, message,
                    twilio_message, sink, reports, skipped, timeVars, treeVars >>

\* The subscriber loop (lines 395-447), one city item of one subscriber at
\* a time.
AtItem == pc = "users" /\ user_index < Len(all_user_cities)
Items == CityItems(all_user_cities[user_index + 1])
Item == Items[item_pos]
City == all_cities[city_pos]
IsWhatsApp == LowerName(whatsapp_list[user_index + 1]) = "whatsapp"

\* line 397: city == city_item
Matches(city, item) == item = <<city>>

NextItem ==
    IF item_pos < Len(Items)
    THEN item_pos' = item_pos + 1 /\ user_index' = user_index
    ELSE item_pos' = 1 /\ user_index' = user_index + 1

\* line 397 false: the item is another city.
PassOverItem ==
    /\ AtItem
    /\ ~Matches(City, Item)
    /\ NextItem
    /\ UNCHANGED << worldVars, pc, raised, cityVars, city_pos, city_index, population,
                    outVars, timeVars, treeVars >>

\* lines 399-404: a WhatsApp subscriber, and --include-whatsapp not given.
SkipWhatsApp ==
    /\ AtItem
    /\ Matches(City, Item)
    /\ IsWhatsApp /\ ~arguments.include_whatsapp
    /\ NextItem
    /\ UNCHANGED << worldVars, pc, raised, cityVars, city_pos, city_index, population,
                    outVars, timeVars, treeVars >>

\* lines 406-444: build the message, send it unless in test mode, count.
\* client.messages.create may raise.
SendToSubscriber ==
    /\ AtItem
    /\ Matches(City, Item)
    /\ ~IsWhatsApp \/ arguments.include_whatsapp
    /\ \E greeting \in greetings, accepted \in BOOLEAN :
          LET body == FinalMessage(arguments,
                          GeneratedMessage(parsha, prequel, City,
                              city_statuses[city_index + 1], sequel,
                              candle_lighting, havdalah, holiday, greeting))
              to == clean_number(all_numbers[user_index + 1])
          IN  /\ message' = Bound(body)
              /\ IF Sends(arguments)
                 THEN /\ sink' = Append(sink, Delivery(to, city_pos, user_index + 1))
                      /\ twilio_message' = Created(to, body)
                 ELSE /\ accepted
                      /\ UNCHANGED << sink, twilio_message >>
              /\ IF accepted
                 THEN /\ population' = population + 1
                      /\ NextItem
                      /\ pc' = "users" /\ raised' = raised
                 ELSE /\ pc' = "crash" /\ raised' = "TwilioRestException"
                      /\ UNCHANGED << population, user_index, item_pos >>
    /\ UNCHANGED << worldVars, cityVars, city_pos, city_index, provider_calls,
                    reports, skipped, timeVars, treeVars >>

Report(n) == [city |-> city_pos, population |-> n,
              status |-> city_statuses[city_index + 1]]

\* lines 449-455: the report of the city; with --custom-message it prints
\* 'message', which is unbound until a first SMS has been built.
ReportCity ==
    /\ pc = "users"
    /\ user_index = Len(all_user_cities)
    /\ arguments.custom_message # <<>> => message.bound
    /\ reports' = Append(reports, Report(population))
    /\ city_index' = city_index + 1
    /\ pc' = "loop"
    /\ UNCHANGED << worldVars, raised, cityVars, city_pos, user_index, item_pos,
                    population, message, twilio_message, sink, provider_calls,
                    skipped, timeVars, treeVars >>

\* line 454 raises NameError.
ReportRaises ==
    /\ pc = "users"
    /\ user_index = Len(all_user_cities)
    /\ arguments.custom_message # <<>>
    /\ ~message.bound
    /\ pc' = "crash" /\ raised' = "NameError"
    /\ UNCHANGED << worldVars, cityVars, loopVars, outVars, timeVars, treeVars >>

\* the for-loop over all_cities is exhausted: the script ends.
FinishRun ==
    /\ pc = "loop"
    /\ city_pos = Len(all_cities)
    /\ pc' = "done"
    /\ UNCHANGED << worldVars, raised, cityVars, loopVars, outVars, timeVars,
                    treeVars >>

Next ==
    \/ SendSinglePhone \/ ListAvailableCities \/ StartCityLoop
    \/ SkipBlacklisted \/ SkipNotWhitelisted \/ SkipPending
    \/ AbortInvalidZip \/ ResolveZip
    \/ FetchLiturgical \/ FetchWeather
    \/ PassOverItem \/ SkipWhatsApp \/ SendToSubscriber
    \/ ReportCity \/ ReportRaises
    \/ FinishRun

-----------------------------------------------------------------------------
(* The worlds the script is run in: command lines, sheets and what the two *)
(* providers answer.                                                       *)

MaxCities == 2
MaxSubs == 2

CityNames == {"Example City", "North Miami Beach", "Boca Raton"}

SeqsUpTo(S, lo, hi) == UNION {[1..n -> S] : n \in lo..hi}

Column(sheet, c) == [i \in 1..Len(sheet) |-> sheet[i][c]]

DistinctCities(sheet) ==
    \A i, j \in 1..Len(sheet) : sheet[i][1] = sheet[j][1] => i = j

\* Status sheet: rows <<city, status>>, a city on one row only.
StatusSheets(names, statuses, lo, hi) ==
    {s \in SeqsUpTo(names \X statuses, lo, hi) : DistinctCities(s)}

\* Rabbi sheet: rows <<city, zip code>>.
FullRabbiSheet ==
    << <<"Example City", "33101">>, <<"North Miami Beach", "33160">>,
       <<"Boca Raton", "33432">> >>

RabbiSheets ==
    {FullRabbiSheet}
    \cup {[FullRabbiSheet EXCEPT ![i] = <<FullRabbiSheet[i][1], "">>] : i \in 1..3}
    \cup {SelectSeq(FullRabbiSheet, LAMBDA r : r[1] # c) : c \in CityNames}
    \cup {<< <<"Example City", "">> >> \o FullRabbiSheet}

ZipTexts == {"33101", "33160", "33432", ""}

\* Subscriber sheet: rows <<phone number, city list, channel kind>>.
PhoneA == <<"(", "305", ")", " ", "555", "-", "0100">>
PhoneB == <<"305", ".", "555", ".", "0199">>

SubscriberRows ==
    { <<PhoneA, <<"Example City">>, "">>,
      <<PhoneB, <<"Example City", ",", " ", "Example City">>, "">>,
      <<PhoneA, <<"North Miami Beach", ",", "Example City", " ">>, "">>,
      <<PhoneB, <<"example city">>, "">>,
      <<PhoneA, <<"Example City">>, "WhatsApp">>,
      <<PhoneB, <<"Example City", ",", "North Miami Beach">>, "WHATSAPP">> }

PlainSubscribers ==
    << <<PhoneA, <<"Example City">>, "">>,
       <<PhoneB, <<"North Miami Beach", ",", " ", "Boca Raton">>, "">> >>

\* hebcal.com/shabbat?cfg=json: a feed title, a location and one item per event.
HebcalJson(titles) ==
    Dict(<< Entry("title", Leaf(<<"Hebcal", " ", "Miami", " ", "November", " ", "2019">>)),
            Entry("location", Dict(<< Entry("title", Leaf(<<"Miami,", " ", "FL">>)),
                                      Entry("tzid", Leaf(<<"America/New_York">>)) >>)),
            Entry("items", List([i \in 1..Len(titles) |->
                      Dict(<< Entry("title", Leaf(titles[i])),
                              Entry("date", Leaf(<<"2019-11-01">>)) >>)])) >>)

CandleArmy == <<"Candle", " ", "lighting:", " ", "1", "9", ":", "0", "5">>
CandleUS == <<"Candle", " ", "lighting:", " ", "7", ":", "0", "5", "p", "m">>
HavdalahArmy == <<"Havdalah", " (50 min)", ":", " ", "2", "0", ":", "0", "4">>
ParshaNoach == <<"Parsha", "s", " ", "Noach">>
ParshaDouble == <<"Parsha", "s", " ", "Acharei", " ", "Mos-Kedoshim">>

HebcalRegular == HebcalJson(<<CandleArmy, ParshaNoach, HavdalahArmy>>)
HebcalHoliday == HebcalJson(<<CandleUS>>)
HebcalDouble == HebcalJson(<<CandleArmy, ParshaDouble, HavdalahArmy>>)
HebcalNoCandle == HebcalJson(<<ParshaNoach, HavdalahArmy>>)

HebcalAnswers ==
    {HebcalRegular, HebcalHoliday, HebcalDouble, HebcalNoCandle, HttpError}

\* api.openweathermap.org/data/2.5/weather
WeatherJson(description) ==
    Dict(<< Entry("weather", List(<< Dict(<< Entry("id", Leaf(<<"800">>)),
                                            Entry("description", Leaf(description)) >>) >>)),
            Entry("main", Dict(<< Entry("temp", Leaf(<<"300.15">>)),
                                  Entry("humidity", Leaf(<<"70">>)) >>)) >>)

WeatherCalm == WeatherJson(<<"clear", " ", "sky">>)
WeatherStorm == WeatherJson(<<"thunderstorm", " ", "with", " ", "light", " ", "rain">>)

WeatherAnswers == {WeatherCalm, WeatherStorm, HttpError}

Everywhere(answer) == [z \in ZipTexts |-> answer]
ExceptEmptyZip(answer) == [z \in ZipTexts |-> IF z = "" THEN HttpError ELSE answer]

CustomMessage == << <<"The Eruv hotline has a new number: 305-555-0123.">> >>
AppendMessage == << <<" ", "Reply STOP to unsubscribe.", " ">> >>

DefaultArgs ==
    [append |-> <<>>, available_cities |-> FALSE, blacklist |-> <<>>,
     custom_message |-> <<>>, donate |-> FALSE, include_whatsapp |-> FALSE,
     no_candlelighting |-> FALSE, no_havdalah |-> FALSE, no_weather |-> FALSE,
     phone |-> <<>>, test |-> FALSE, weather |-> FALSE, whitelist |-> <<>>]

World(args, statusSheet, rabbiSheet, subscriberSheet, heb, wea) ==
    [args |-> args, status |-> statusSheet, rabbis |-> rabbiSheet,
     subscribers |-> subscriberSheet, hebcal |-> heb, weather |-> wea]

\* The script after argument parsing and authentication (line 206); the
\* sheets are what lines 231-245 will read.
InitWorld(w) ==
    /\ arguments = w.args
    /\ all_numbers = Column(w.subscribers, 1)
    /\ all_user_cities = Column(w.subscribers, 2)
    /\ whatsapp_list = Column(w.subscribers, 3)
    /\ all_rabbi_cities = Column(w.rabbis, 1)
    /\ all_rabbi_zipcodes = Column(w.rabbis, 2)
    /\ all_cities = Column(w.status, 1)
    /\ city_statuses = Column(w.status, 2)
    /\ hebcal = w.hebcal
    /\ openweathermap = w.weather
    /\ pc = "start" /\ raised = ""
    /\ city_pos = 0 /\ city_index = 0
    /\ zipcode = IntZip(0)
    /\ response = EmptyStr /\ weather_response = EmptyStr
    /\ candle_lighting = <<>> /\ havdalah = <<>> /\ parsha = <<>>
    /\ holiday = <<>> /\ prequel = <<>> /\ sequel = <<>>
    /\ user_index = 0 /\ item_pos = 1 /\ population = 0
    /\ message = Unbound /\ twilio_message = Unbound
    /\ sink = <<>> /\ provider_calls = <<>> /\ reports = <<>>
    /\ skipped = {}

\* Gating: every status sheet and rabbi sheet, blacklists and whitelists in
\* several casings, generated and custom messages.
InitGating ==
    \E b \in {<<>>, <<"example city">>, <<"NORTH MIAMI BEACH", "Example City">>},
        w \in {<<>>, <<"EXAMPLE CITY">>, <<"north miami beach", "Boca Raton">>},
        c \in {<<>>, CustomMessage},
        s \in StatusSheets(CityNames, {"Open", "Pending"}, 1, MaxCities),
        r \in RabbiSheets,
        h \in {Everywhere(HebcalRegular), ExceptEmptyZip(HebcalRegular)} :
        InitWorld(World([DefaultArgs EXCEPT !.blacklist = b, !.whitelist = w,
                                !.custom_message = c],
            s, r, PlainSubscribers, h, Everywhere(WeatherCalm)))

\* Delivery: every subscriber sheet, test mode, WhatsApp inclusion.
InitDelivery ==
    \E t \in BOOLEAN, i \in BOOLEAN, c \in {<<>>, CustomMessage},
        s \in { << <<"Example City", "Open">> >>,
                << <<"North Miami Beach", "Closed">>, <<"Example City", "Open">> >>,
                << <<"Example City", "Pending">>, <<"North Miami Beach", "Open">> >> },
        u \in SeqsUpTo(SubscriberRows, 0, MaxSubs) :
        InitWorld(World([DefaultArgs EXCEPT !.test = t, !.include_whatsapp = i,
                                !.custom_message = c],
            s, FullRabbiSheet, u, Everywhere(HebcalRegular),
            Everywhere(WeatherCalm)))

\* Composition: every message flag, every provider answer, short and long
\* city names and statuses.
InitComposition ==
    \E f \in {<<>>, CustomMessage} \X BOOLEAN \X {<<>>, AppendMessage}
              \X BOOLEAN \X BOOLEAN \X BOOLEAN \X BOOLEAN,
        s \in StatusSheets({"Example City", "North Miami Beach"},
                           {"Open", "Down due to construction"}, 1, 1),
        h \in HebcalAnswers,
        w \in WeatherAnswers :
        InitWorld(World([DefaultArgs EXCEPT !.custom_message = f[1], !.donate = f[2],
                                !.append = f[3], !.no_candlelighting = f[4],
                                !.no_havdalah = f[5], !.no_weather = f[6],
                                !.weather = f[7]],
            s, FullRabbiSheet, PlainSubscribers, Everywhere(h), Everywhere(w)))

\* The two command lines that end the script before the city loop.
InitEarlyExit ==
    \/ \E d \in BOOLEAN, a \in {<<>>, AppendMessage}, t \in BOOLEAN :
          InitWorld(World([DefaultArgs EXCEPT !.phone = << PhoneA >>,
                                              !.custom_message = CustomMessage,
                                              !.donate = d, !.append = a,
                                              !.test = t],
                          << <<"Example City", "Open">> >>, FullRabbiSheet,
                          PlainSubscribers, Everywhere(HebcalRegular),
                          Everywhere(WeatherCalm)))
    \/ \E t \in BOOLEAN :
          InitWorld(World([DefaultArgs EXCEPT !.available_cities = TRUE,
                                              !.test = t],
                          << <<"Example City", "Open">> >>, FullRabbiSheet,
                          PlainSubscribers, Everywhere(HebcalRegular),
                          Everywhere(WeatherCalm)))

TimeIdle ==
    /\ time_case = [kind |-> "none"]
    /\ input_time = <<>>
    /\ time_out = Unbound

TreeIdle ==
    /\ obj = Leaf("")
    /\ key = ""
    /\ results = Unbound

Init ==
    /\ InitGating \/ InitDelivery \/ InitComposition \/ InitEarlyExit
    /\ TimeIdle /\ TreeIdle

Spec == Init /\ [][Next]_vars

-----------------------------------------------------------------------------
(* Specification of army_to_meridian: every 24-hour clock text, and some   *)
(* texts that already carry am/pm, are converted once.                     *)

Hours == 0..23
MinuteSamples == {0, 5, 9, 10, 59}
SecondSamples == {0, 7, 30, 59}

TwoDigits(n) == <<Digits[(n \div 10) + 1], Digits[(n % 10) + 1]>>

MeridianSamples ==
    { <<"6", ":", "3", "0", " ", "p", "m">>,
      <<"6", ":", "3", "0", "P", "M">>,
      <<"1", "1", ":", "0", "5", " ", "A", "m">>,
      <<"7", ":", "1", "5", "a", "M">>,
      <<"1", "9", ":", "0", "5", "p", "m">> }

TimeCases ==
    [kind : {"army"}, h : Hours, m : MinuteSamples, s : {0},
     secs : {FALSE}, pad : BOOLEAN, text : {<<>>}]
    \cup [kind : {"army"}, h : Hours, m : MinuteSamples, s : SecondSamples,
          secs : {TRUE}, pad : BOOLEAN, text : {<<>>}]
    \cup [kind : {"meridian"}, h : {0}, m : {0}, s : {0},
          secs : {FALSE}, pad : {FALSE}, text : MeridianSamples]

HourDigits(c) ==
    IF c.pad \/ c.h >= 10 THEN TwoDigits(c.h) ELSE <<Digits[c.h + 1]>>

ClockText(c) ==
    IF c.kind = "meridian" THEN c.text
    ELSE HourDigits(c) \o <<":">> \o TwoDigits(c.m)
         \o (IF c.secs THEN <<":">> \o TwoDigits(c.s) ELSE <<>>)

RunIdle ==
    /\ arguments = [phone |-> <<>>]
    /\ all_numbers = <<>> /\ all_user_cities = <<>> /\ whatsapp_list = <<>>
    /\ all_rabbi_cities = <<>> /\ all_rabbi_zipcodes = <<>>
    /\ all_cities = <<>> /\ city_statuses = <<>>
    /\ hebcal = <<>> /\ openweathermap = <<>>
    /\ pc = "idle" /\ raised = ""
    /\ city_pos = 0 /\ city_index = 0
    /\ zipcode = [type |-> "int", int |-> 0]
    /\ response = Leaf(<<>>) /\ weather_response = Leaf(<<>>)
    /\ candle_lighting = <<>> /\ havdalah = <<>> /\ parsha = <<>>
    /\ holiday = <<>> /\ prequel = <<>> /\ sequel = <<>>
    /\ user_index = 0 /\ item_pos = 0 /\ population = 0
    /\ message = Unbound /\ twilio_message = Unbound
    /\ sink = <<>> /\ provider_calls = <<>> /\ reports = <<>>
    /\ skipped = {}

InitTime ==
    /\ RunIdle /\ TreeIdle
    /\ time_case \in TimeCases
    /\ input_time = ClockText(time_case)
    /\ time_out = Unbound

CallArmyToMeridian ==
    /\ time_case.kind # "none"
    /\ ~time_out.bound
    /\ time_out' = Bound(army_to_meridian(input_time))
    /\ UNCHANGED << runVars, treeVars, time_case, input_time >>

NextTime == CallArmyToMeridian

SpecTime == InitTime /\ [][NextTime]_vars

-----------------------------------------------------------------------------
(* Specification of extract_values: a JSON value is grown from a leaf or   *)
(* an empty container by wrapping it, with or without siblings, in lists   *)
(* and dicts, and is then searched once.                                   *)

MaxDepth == 3

Keys == {"title", "date"}
LeafVals == {"X", "Y"}

RECURSIVE Height(_)
Height(o) ==
    IF ~IsContainer(o) \/ o.items = <<>> THEN 0
    ELSE LET Sub(i) == IF o.kind = "dict" THEN o.items[i].v ELSE o.items[i]
             hs == {Height(Sub(i)) : i \in 1..Len(o.items)}
         IN  1 + CHOOSE h \in hs : \A g \in hs : g <= h

BaseNodes == {Leaf(v) : v \in LeafVals} \cup {List(<<>>), Dict(<<>>)}

ListWraps(o) ==
    {List(<<o>>), List(<<o, o>>)}
    \cup {List(<<Leaf(v), o>>) : v \in LeafVals}
    \cup {List(<<o, Leaf(v)>>) : v \in LeafVals}

DictWraps(o) ==
    {Dict(<<Entry(k, o)>>) : k \in Keys}
    \cup {Dict(<<Entry(k, o), Entry(j, Leaf(v))>>) :
             <<k, j, v>> \in {x \in Keys \X Keys \X LeafVals : x[1] # x[2]}}
    \cup {Dict(<<Entry(j, Leaf(v)), Entry(k, o)>>) :
             <<k, j, v>> \in {x \in Keys \X Keys \X LeafVals : x[1] # x[2]}}
    \cup {Dict(<<Entry(k, o), Entry(j, o)>>) :
             <<k, j>> \in {x \in Keys \X Keys : x[1] # x[2]}}

InitExtract ==
    /\ RunIdle /\ TimeIdle
    /\ obj \in BaseNodes
    /\ key \in Keys
    /\ results = Unbound

WrapInList ==
    /\ ~results.bound
    /\ Height(obj) < MaxDepth
    /\ obj' \in ListWraps(obj)
    /\ UNCHANGED << runVars, timeVars, key, results >>

WrapInDict ==
    /\ ~results.bound
    /\ Height(obj) < MaxDepth
    /\ obj' \in DictWraps(obj)
    /\ UNCHANGED << runVars, timeVars, key, results >>

CallExtractValues ==
    /\ key # ""
    /\ ~results.bound
    /\ results' = Bound(extract_values(obj, key))
    /\ UNCHANGED << runVars, timeVars, obj, key >>

NextExtract == WrapInList \/ WrapInDict \/ CallExtractValues

SpecExtract == InitExtract /\ [][NextExtract]_vars

-----------------------------------------------------------------------------
(* What the claims speak of, read off the state                             *)

SendsFor(c, u) ==
    Cardinality({i \in 1..Len(sink) : sink[i].city = c /\ sink[i].user = u})

SendsForCity(c) == Cardinality({i \in 1..Len(sink) : sink[i].city = c})

CallsForCity(c) ==
    Cardinality({i \in 1..Len(provider_calls) : provider_calls[i].city = c})

Reported(c) == \E i \in 1..Len(reports) : reports[i].city = c

Subscribers == 1..Len(all_user_cities)

\* The city is one of the trimmed elements of the subscriber's city list.
Belongs(c, u) ==
    \E i \in 1..Len(CityItems(all_user_cities[u])) :
        CityItems(all_user_cities[u])[i] = <<all_cities[c]>>

ChannelAllowed(u) ==
    LowerName(whatsapp_list[u]) # "whatsapp" \/ arguments.include_whatsapp

ShouldSend(c, u) == Belongs(c, u) /\ ChannelAllowed(u)

\* The elements of the city lists that name the city, over the allowed
\* subscribers: what the subscriber loop counts.
MatchingItems(c) ==
    Cardinality(UNION {
        {<<u, i>> : i \in {j \in 1..Len(CityItems(all_user_cities[u])) :
                              CityItems(all_user_cities[u])[j] = <<all_cities[c]>>}}
        : u \in {v \in Subscribers : ChannelAllowed(v)} })

Named(list, name) == \E i \in 1..Len(list) : LowerName(list[i]) = LowerName(name)

ShouldSkip(p) ==
    \/ arguments.blacklist # <<>> /\ Named(arguments.blacklist, all_cities[p])
    \/ arguments.whitelist # <<>> /\ ~Named(arguments.whitelist, all_cities[p])
    \/ city_statuses[p] = "Pending"

\* The city has no rabbi row, or its first rabbi row has an empty zip code.
NoZip(p) ==
    LET rows == {i \in 1..Len(all_rabbi_cities) : all_rabbi_cities[i] = all_cities[p]}
    IN  \/ rows = {}
        \/ all_rabbi_zipcodes[CHOOSE i \in rows : \A j \in rows : i <= j] = ""

\* The generated message of the current city, with the given greeting.
Generated(g) ==
    GeneratedMessage(parsha, prequel, City, city_statuses[city_index + 1],
                     sequel, candle_lighting, havdalah, holiday, g)

\* However it greets, the generated message of the current city is longer
\* than 160 characters, also with every ' (50 min)' taken out.
ComposedTooLong ==
    /\ pc = "users"
    /\ \A g \in greetings : TLen(Without(Generated(g), " (50 min)")) > SmsLimit

-----------------------------------------------------------------------------
(* C1: for every processed city and every subscriber row, the SMS sink is  *)
(* invoked exactly once for the pair when the city equals a trimmed        *)
(* element of the subscriber's city list and the subscriber is not a       *)
(* WhatsApp subscriber (or --include-whatsapp is given), and never         *)
(* otherwise; a list naming the city twice still yields one send.          *)
C1_OncePerSubscriber ==
    ~arguments.test =>
        \A i \in 1..Len(reports), u \in Subscribers :
            SendsFor(reports[i].city, u)
                = IF ShouldSend(reports[i].city, u) THEN 1 ELSE 0

C3_BodyWithinLimit ==
    (twilio_message.bound /\ arguments.phone = <<>>) =>
        TLen(twilio_message.text) <= SmsLimit

(* C4: when the loop reaches a city that passes the gating and has no      *)
(* non-empty zip code in the rabbi sheet, the run aborts at once: no       *)
(* provider call and no SMS for that city or a later one; a skipped city   *)
(* never aborts the run.                                                   *)
C4_AbortsWithoutZip ==
    /\ \A p \in 1..city_pos :
          (p \notin skipped /\ NoZip(p)) =>
              /\ pc = "quit" /\ p = city_pos
              /\ \A i \in 1..Len(provider_calls) : provider_calls[i].city < p
              /\ \A i \in 1..Len(sink) : sink[i].city < p
    /\ (pc = "quit" /\ city_pos >= 1) => city_pos \notin skipped

(* C5: a city named by the blacklist in any casing, or not named by a      *)
(* given whitelist, or Pending, gets no SMS and no provider call (the      *)
(* blacklist wins over the whitelist); the loop goes on after the skip,    *)
(* and every later city is processed in sheet order against its own        *)
(* status entry.                                                           *)
C5_SkipsAndGoesOn ==
    /\ \A p \in 1..city_pos :
          ShouldSkip(p) =>
              /\ p \in skipped
              /\ SendsForCity(p) = 0
              /\ CallsForCity(p) = 0
    /\ \A p \in skipped : p = city_pos => pc \in {"loop", "done"}
    /\ pc = "loop" => city_index = city_pos
    /\ pc \in {"hebcal", "weather", "users"} => city_index + 1 = city_pos
    /\ \A p \in 1..(city_pos - 1) : p \in skipped \/ Reported(p)
    /\ \A i \in 1..Len(reports) :
          /\ reports[i].status = city_statuses[reports[i].city]
          /\ \A j \in 1..(i - 1) : reports[j].city < reports[i].city

\* The first city was skipped by a blacklist entry in another casing, and
\* the second one has been sent to and reported.
C5_Witness ==
    /\ pc = "done"
    /\ arguments.blacklist = <<"example city">>
    /\ arguments.whitelist = <<>>
    /\ all_cities = <<"Example City", "North Miami Beach">>
    /\ city_statuses = <<"Pending", "Open">>
    /\ skipped = {1}
    /\ SendsForCity(2) = 1
    /\ Len(reports) = 1 /\ reports[1].city = 2 /\ reports[1].status = "Open"

(* C6: when hebcal was asked and no title holds 'Candle', the              *)
(* candle-lighting clause is empty and the run goes on; the absence never  *)
(* raises an error.                                                        *)
C6_NoCandleGoesOn ==
    (response # EmptyStr /\ TitlesWith(response, "Candle") = <<>>) =>
        raised # "IndexError" /\ candle_lighting = <<>>

(* C7: for each processed city the run reports, after the subscriber loop, *)
(* a count equal to the sends made for the city (would-be sends in test    *)
(* mode) and goes on to the next city, in every configuration, also with   *)
(* --custom-message and no matching subscriber.                            *)
C7_CountsThenGoesOn ==
    /\ \A i \in 1..Len(reports) :
          reports[i].population =
              IF arguments.test THEN MatchingItems(reports[i].city)
              ELSE SendsForCity(reports[i].city)
    /\ raised # "NameError"

(* C8: in test mode the SMS sink is never invoked, on the single-phone     *)
(* path or in the broadcast, while the gating, the subscriber filtering    *)
(* and the per-city count are those of a run without test mode.            *)
C8_TestModeSendsNothing ==
    /\ arguments.test => sink = <<>> /\ ~twilio_message.bound
    /\ ~arguments.test =>
          \A i \in 1..Len(reports) :
              SendsForCity(reports[i].city) = reports[i].population
    /\ \A i \in 1..Len(reports) :
          reports[i].population = MatchingItems(reports[i].city)
    /\ \A p \in 1..city_pos : p \in skipped <=> ShouldSkip(p)
    /\ (pc = "quit" /\ arguments.phone # <<>>) =>
          Len(sink) = IF arguments.test THEN 0 ELSE 1

\* A test run has ended: a city was skipped, another one counted two
\* would-be recipients, and nothing went to the sink.
C8_Witness ==
    /\ arguments.test
    /\ pc = "done"
    /\ skipped # {}
    /\ \E i \in 1..Len(reports) : reports[i].population = 2
    /\ sink = <<>>

-----------------------------------------------------------------------------
(* C9: for every 24-hour text H:MM or H:MM:SS (H in 0..23, MM and SS in      *)
(* 0..59, no am/pm), army_to_meridian returns the 12-hour hour without     *)
(* leading zero (0 -> 12, 13..23 -> H-12), ":" and the two-digit minutes,  *)
(* ":" and the two-digit seconds only when they are nonzero, then " AM"    *)
(* for H < 12 and " PM" for H >= 12; a text that already holds am or pm    *)
(* in any casing is returned unchanged.                                    *)

TwelveHour ==
    <<"12", "1", "2", "3", "4", "5", "6", "7", "8", "9", "10", "11",
      "12", "1", "2", "3", "4", "5", "6", "7", "8", "9", "10", "11">>

HourChars(name) ==
    CASE name = "10" -> <<"1", "0">>
      [] name = "11" -> <<"1", "1">>
      [] name = "12" -> <<"1", "2">>
      [] OTHER -> <<name>>

ExpectedMeridian(c) ==
    IF c.kind = "meridian" THEN c.text
    ELSE HourChars(TwelveHour[c.h + 1]) \o <<":">> \o TwoDigits(c.m)
         \o (IF c.secs /\ c.s # 0 THEN <<":">> \o TwoDigits(c.s) ELSE <<>>)
         \o (IF c.h < 12 THEN <<" ", "A", "M">> ELSE <<" ", "P", "M">>)

C9_MeridianFormat ==
    time_out.bound => time_out.text = ExpectedMeridian(time_case)

\* Midnight and noon, an afternoon hour and nonzero seconds have been converted.
C9_Witness ==
    /\ time_out.bound
    /\ time_case.kind = "army"
    /\ time_case.h = 13 /\ time_case.m = 5 /\ ~time_case.secs
    /\ time_out.text = <<"1", ":", "0", "5", " ", "P", "M">>

-----------------------------------------------------------------------------
(* C10: extract_values returns exactly the values of the dict entries      *)
(* whose key is the given key and whose value is a leaf, in depth-first    *)
(* document order, duplicates kept; an entry whose value is a dict or a    *)
(* list is searched and never collected itself; the result is empty when   *)
(* there is no such entry, also when the root is a bare leaf.              *)

\* The paths (child positions from the root) of the leaf entries under key k.
RECURSIVE MatchPaths(_, _)
MatchPaths(o, k) ==
    IF ~IsContainer(o) THEN {}
    ELSE UNION { LET child == IF o.kind = "dict" THEN o.items[i].v ELSE o.items[i]
                 IN  IF IsContainer(child)
                     THEN {<<i>> \o p : p \in MatchPaths(child, k)}
                     ELSE IF o.kind = "dict" /\ o.items[i].k = k THEN {<<i>>}
                     ELSE {}
               : i \in 1..Len(o.items) }

\* Document order: p before q when p is smaller at the first position they differ.
RECURSIVE Before(_, _)
Before(p, q) ==
    /\ p # <<>> /\ q # <<>>
    /\ \/ Head(p) < Head(q)
       \/ Head(p) = Head(q) /\ Before(Tail(p), Tail(q))

RECURSIVE InOrder(_)
InOrder(ps) ==
    IF ps = {} THEN <<>>
    ELSE LET first == CHOOSE p \in ps : \A q \in ps \ {p} : Before(p, q)
         IN  <<first>> \o InOrder(ps \ {first})

RECURSIVE ValueAt(_, _)
ValueAt(o, p) ==
    LET child == IF o.kind = "dict" THEN o.items[Head(p)].v ELSE o.items[Head(p)]
    IN  IF Len(p) = 1 THEN child.val ELSE ValueAt(child, Tail(p))

ExpectedValues(o, k) ==
    LET order == InOrder(MatchPaths(o, k))
    IN  [i \in 1..Len(order) |-> ValueAt(o, order[i])]

C10_ExtractLeafMatches ==
    results.bound =>
        /\ results.text = ExpectedValues(obj, key)
        /\ Len(results.text) = Cardinality(MatchPaths(obj, key))

\* A matching key whose value is a dict that holds a matching leaf, beside a
\* leaf under another key: the nested leaf alone is collected.
C10_Witness ==
    /\ results.bound
    /\ obj = Dict(<<Entry("title", Dict(<<Entry("title", Leaf("X"))>>)),
                    Entry("date", Leaf("Y"))>>)
    /\ key = "title"
    /\ results.text = <<"X">>

=============================================================================
